---------------------------- MODULE Spec2Model ----------------------------
(***************************************************************************)
(* Model of generate_zod_schema.py: the TypeScript-to-Zod converter        *)
(* (class TypeScriptToZodConverter and main).                              *)
(*                                                                         *)
(* Text.  A Python str is modelled as a sequence of atoms; the string is   *)
(* the concatenation of its atoms.  Every whitespace and punctuation       *)
(* character is an atom of its own.  A maximal run of word characters      *)
(* ([A-Za-z0-9_]) is one atom, except that a run is cut where the code's   *)
(* patterns can match inside it: after a leading `undefined' or `null'     *)
(* (line 49 matches them without a word boundary) and before a trailing    *)
(* `interface', `type', `enum' (lines 214, 227, 240 likewise).  So         *)
(* "nullable" is <<"null", "able">>.  The JSDoc delimiters "/**" and "*/"  *)
(* are atoms.  Text the code emits (f-string constants such as             *)
(* "z.array(") is kept as one atom per constant.                           *)
(***************************************************************************)
EXTENDS Integers, Sequences, FiniteSets, TLC

VARIABLES
    self,          \* self[c]: the three registries of converter object c (lines 32-35)
    pc,            \* pc[p]: position of caller p inside convert_file
    input,         \* input[p]: the file whose text is input_content of p's call
    output_lines,  \* output_lines[p]: the list built by p's running call
    returned,      \* returned[p]: [input, text, registries] of each call p has finished, in order
    ncalls,        \* ncalls[p]: convert_file calls p has started
    overlapped,    \* overlapped[p]: p's call took a step while another call was running
    tcall,         \* the last convert_type call: [expr, optional, result]
    cli            \* the run of main: its position, arguments, prints, exit status, files

vars == <<self, pc, input, output_lines, returned, ncalls, overlapped, tcall, cli>>

-----------------------------------------------------------------------------
(* Bounds *)

MaxDepth == 2      \* nesting depth of the enumerated type expressions
MaxCalls == 2      \* convert_file calls made on one converter object

-----------------------------------------------------------------------------
(* str helpers *)

WS == {" ", "\n", "\t"}

Punct == {"|", "<", ">", "[", "]", "?", ",", "'", "\"", "{", "}", ":", ";",
          "=", "(", ")", "/", "*", "/**", "*/", ".", "-"}

\* \w : the atom is a run of word characters
IsWord(a) == a \notin WS /\ a \notin Punct

Min(S) == CHOOSE x \in S : \A y \in S : x <= y
Max(S) == CHOOSE x \in S : \A y \in S : x >= y

RECURSIVE LStrip(_)
LStrip(s) == IF s # <<>> /\ Head(s) \in WS THEN LStrip(Tail(s)) ELSE s

RECURSIVE RStrip(_)
RStrip(s) ==
    IF s # <<>> /\ s[Len(s)] \in WS THEN RStrip(SubSeq(s, 1, Len(s) - 1)) ELSE s

\* str.strip()
Strip(s) == RStrip(LStrip(s))

\* str.startswith / str.endswith / `sub in s'
StartsWith(s, p) == Len(s) >= Len(p) /\ SubSeq(s, 1, Len(p)) = p
EndsWith(s, p) == Len(s) >= Len(p) /\ SubSeq(s, Len(s) - Len(p) + 1, Len(s)) = p
Contains(s, p) == \E i \in 1..(Len(s) - Len(p) + 1) : SubSeq(s, i, i + Len(p) - 1) = p

\* first index >= i of s that holds no whitespace (Len(s)+1 when there is none):
\* where a greedy \s* started at i stops
RECURSIVE SkipWS(_, _)
SkipWS(s, i) == IF i <= Len(s) /\ s[i] \in WS THEN SkipWS(s, i + 1) ELSE i

\* first index >= i of s that holds no word atom: where a greedy \w+ stops
RECURSIVE SkipWord(_, _)
SkipWord(s, i) == IF i <= Len(s) /\ IsWord(s[i]) THEN SkipWord(s, i + 1) ELSE i

\* `.' without re.DOTALL: s[a..b] holds no newline
NoNewline(s, a, b) == \A k \in a..b : s[k] # "\n"

\* sep.join(parts)
RECURSIVE Join(_, _)
Join(sep, parts) ==
    IF parts = <<>> THEN <<>>
    ELSE IF Len(parts) = 1 THEN parts[1]
    ELSE parts[1] \o sep \o Join(sep, Tail(parts))

\* s.split('|') from index i on: the pieces between the "|" atoms
RECURSIVE SplitBar(_, _)
SplitBar(s, i) ==
    LET bars == {j \in i..Len(s) : s[j] = "|"}
    IN  IF bars = {} THEN <<SubSeq(s, i, Len(s))>>
        ELSE <<SubSeq(s, i, Min(bars) - 1)>> \o SplitBar(s, Min(bars) + 1)

-----------------------------------------------------------------------------
(* Registries: dicts, kept as sequences of <<key, value>> in insertion order *)

EmptyDict == <<>>

Keys(d) == {d[i][1] : i \in DOMAIN d}

KeyList(d) == [i \in DOMAIN d |-> d[i][1]]

\* a registry kept as a list of entries: every write adds one
DictAppend(d, k, v) == Append(d, <<k, v>>)

\* d[k] = v : a present key keeps its position, a new key goes last
DictSet(d, k, v) ==
    IF k \in Keys(d)
    THEN [i \in DOMAIN d |-> IF d[i][1] = k THEN <<k, v>> ELSE d[i]]
    ELSE Append(d, <<k, v>>)

\* __init__ (lines 32-35)
NewConverter == [interfaces |-> EmptyDict, types |-> EmptyDict, enums |-> EmptyDict]

-----------------------------------------------------------------------------
(* convert_type (lines 37-92) *)

\* the table with the Date row mapped like a string
TYPE_MAP_DateAsString ==
    [k \in {"string", "number", "boolean", "Date", "any", "unknown", "null",
            "undefined", "void"} |->
        CASE k \in {"string", "Date"} -> "z.string()"
          [] k = "number" -> "z.number()"
          [] k = "boolean" -> "z.boolean()"
          [] k = "any" -> "z.any()"
          [] k = "unknown" -> "z.unknown()"
          [] k = "null" -> "z.null()"
          [] k = "undefined" -> "z.undefined()"
          [] k = "void" -> "z.void()"]

TYPE_MAP ==
    [k \in {"string", "number", "boolean", "Date", "any", "unknown", "null",
            "undefined", "void"} |->
        CASE k = "string" -> "z.string()"
          [] k = "number" -> "z.number()"
          [] k = "boolean" -> "z.boolean()"
          [] k = "Date" -> "z.date()"
          [] k = "any" -> "z.any()"
          [] k = "unknown" -> "z.unknown()"
          [] k = "null" -> "z.null()"
          [] k = "undefined" -> "z.undefined()"
          [] k = "void" -> "z.void()"]

\* `ts_type in self.TYPE_MAP'
InTypeMap(t) == Len(t) = 1 /\ t[1] \in DOMAIN TYPE_MAP

\* line 47: ' | undefined' in ts_type or ' | null' in ts_type
HasOptionalBranch(t) ==
    \/ Contains(t, <<" ", "|", " ", "undefined">>)
    \/ Contains(t, <<" ", "|", " ", "null">>)

\* one match of \s*\|\s*(undefined|null) starting at i: its last index, or 0
OptionalMatchEnd(s, i) ==
    LET j == SkipWS(s, i)
        k == SkipWS(s, j + 1)
    IN  IF j <= Len(s) /\ s[j] = "|" /\ k <= Len(s) /\ s[k] \in {"undefined", "null"}
        THEN k ELSE 0

\* line 49: re.sub(r'\s*\|\s*(undefined|null)', '', ts_type), from index i on
RECURSIVE SubOptional(_, _)
SubOptional(s, i) ==
    LET starts == {j \in i..Len(s) : OptionalMatchEnd(s, j) # 0}
    IN  IF starts = {} THEN SubSeq(s, i, Len(s))
        ELSE SubSeq(s, i, Min(starts) - 1)
                 \o SubOptional(s, OptionalMatchEnd(s, Min(starts)) + 1)

\* line 66: re.match(r'Record<\s*(.+?)\s*,\s*(.+?)\s*>', ts_type), group 2.
\* The value group starts at b (after the comma at c and a greedy \s* that
\* may give whitespace back) and is the shortest text on one line that is
\* followed by \s*>.
RecordValueEnds(s, b) ==
    {ve \in b..Len(s) : /\ NoNewline(s, b, ve)
                        /\ LET g == SkipWS(s, ve + 1)
                           IN  g <= Len(s) /\ s[g] = ">"}

RecordValueStarts(s, c) ==
    {b \in (c + 1)..SkipWS(s, c + 1) : RecordValueEnds(s, b) # {}}

\* the key group starts at a and ends at ke (shortest first), followed by \s*,
RecordKeyEnds(s, a) ==
    {ke \in a..Len(s) : /\ NoNewline(s, a, ke)
                        /\ LET c == SkipWS(s, ke + 1)
                           IN  /\ c <= Len(s) /\ s[c] = ","
                               /\ RecordValueStarts(s, c) # {}}

RecordKeyStarts(s) == {a \in 3..SkipWS(s, 3) : RecordKeyEnds(s, a) # {}}

RecordMatches(s) == RecordKeyStarts(s) # {}

\* match.group(2)
RecordValueType(s) ==
    LET a == Max(RecordKeyStarts(s))
        ke == Min(RecordKeyEnds(s, a))
        c == SkipWS(s, ke + 1)
        b == Max(RecordValueStarts(s, c))
        ve == Min(RecordValueEnds(s, b))
    IN  SubSeq(s, b, ve)

\* lines 41-49: the expression after the optionality stripping
StripOptionality(ts_type) ==
    LET t0 == Strip(ts_type)
        t1 == IF EndsWith(t0, <<"?">>) THEN Strip(SubSeq(t0, 1, Len(t0) - 1)) ELSE t0
    IN  IF HasOptionalBranch(t1) THEN Strip(SubOptional(t1, 1)) ELSE t1

\* lines 41-48: the optional flag after the optionality stripping
IsOptional(ts_type, optional) ==
    LET t0 == Strip(ts_type)
        t1 == IF EndsWith(t0, <<"?">>) THEN Strip(SubSeq(t0, 1, Len(t0) - 1)) ELSE t0
    IN  optional \/ EndsWith(t0, <<"?">>) \/ HasOptionalBranch(t1)

\* a reference rule that takes any text for a declared name
IsRegisteredAnyName(reg, t) == TRUE

\* line 82: ts_type in self.interfaces or ... self.types or ... self.enums
IsRegistered(reg, t) ==
    t \in Keys(reg.interfaces) \/ t \in Keys(reg.types) \/ t \in Keys(reg.enums)

RECURSIVE convert_type(_, _, _)
RECURSIVE ConvertAll(_, _)

\* line 76: [self.convert_type(t) for t in union_types]
ConvertAll(reg, ts) ==
    IF ts = <<>> THEN <<>>
    ELSE <<convert_type(reg, Head(ts), FALSE)>> \o ConvertAll(reg, Tail(ts))

convert_type(reg, ts_type, optional) ==
    LET t == StripOptionality(ts_type)
        opt == IsOptional(ts_type, optional)
        zod ==
            IF InTypeMap(t) THEN <<TYPE_MAP[t[1]]>>
            ELSE IF EndsWith(t, <<"[", "]">>)
            THEN <<"z.array(">>
                 \o convert_type(reg, Strip(SubSeq(t, 1, Len(t) - 2)), FALSE)
                 \o <<")">>
            ELSE IF StartsWith(t, <<"Array", "<">>) /\ EndsWith(t, <<">">>)
            THEN <<"z.array(">>
                 \o convert_type(reg, Strip(SubSeq(t, 3, Len(t) - 1)), FALSE)
                 \o <<")">>
            ELSE IF StartsWith(t, <<"Record", "<">>)
            THEN IF RecordMatches(t)
                 THEN <<"z.record(">>
                      \o convert_type(reg, RecordValueType(t), FALSE) \o <<")">>
                 ELSE <<"z.record(z.any())">>
            ELSE IF Contains(t, <<" ", "|", " ">>)
            THEN <<"z.union([">>
                 \o Join(<<", ">>,
                         ConvertAll(reg, [i \in DOMAIN SplitBar(t, 1) |->
                                            Strip(SplitBar(t, 1)[i])]))
                 \o <<"])">>
            ELSE IF StartsWith(t, <<"'">>) \/ StartsWith(t, <<"\"">>)
            THEN <<"z.literal(">> \o t \o <<")">>
            ELSE IF IsRegistered(reg, t)
            THEN t \o <<"Schema">>
            ELSE <<"z.any() /* TODO: define schema for ">> \o t \o <<" */">>
    IN  IF opt THEN zod \o <<".optional()">> ELSE zod

\* a rule that hands the text it was given on to convert_type again
RecursesOnWhole(ts_type) == <<StripOptionality(ts_type)>>

\* the arguments of the recursive calls one convert_type(ts_type) call makes,
\* in call order: line 56 (T[]), line 61 (Array<T>), line 68 (Record<K, V>),
\* line 76 (union); no other rule calls convert_type
InnerCalls(ts_type) ==
    LET t == StripOptionality(ts_type) IN
    IF InTypeMap(t) THEN <<>>
    ELSE IF EndsWith(t, <<"[", "]">>) THEN <<Strip(SubSeq(t, 1, Len(t) - 2))>>
    ELSE IF StartsWith(t, <<"Array", "<">>) /\ EndsWith(t, <<">">>)
    THEN <<Strip(SubSeq(t, 3, Len(t) - 1))>>
    ELSE IF StartsWith(t, <<"Record", "<">>)
    THEN IF RecordMatches(t) THEN <<RecordValueType(t)>> ELSE <<>>
    ELSE IF Contains(t, <<" ", "|", " ">>)
    THEN [i \in DOMAIN SplitBar(t, 1) |-> Strip(SplitBar(t, 1)[i])]
    ELSE <<>>

-----------------------------------------------------------------------------
(* Declaration patterns of convert_file (lines 213-216, 226-229, 239-242) *)

\* <kw>\s+\w+\s*\{[^}]*\} with the keyword at index k: the index of the
\* closing brace, or 0.  kw is "interface" (line 214) or "enum" (line 240).
BlockEndFrom(kw, s, k) ==
    LET a == SkipWS(s, k + 1)
        b == SkipWord(s, a)
        c == SkipWS(s, b)
        closes == {j \in (c + 1)..Len(s) : s[j] = "}"}
    IN  IF /\ k <= Len(s) /\ s[k] = kw
           /\ a > k + 1 /\ b > a
           /\ c <= Len(s) /\ s[c] = "{"
           /\ closes # {}
        THEN Min(closes) ELSE 0

\* type\s+\w+\s*=\s*[^;]+;? with the keyword at index k (line 227): the last
\* index of the match, or 0.  [^;]+ runs over newlines to the next ";" or to
\* the end of the text.
AliasEndFrom(s, k) ==
    LET a == SkipWS(s, k + 1)
        b == SkipWord(s, a)
        c == SkipWS(s, b)
        semis == {j \in (c + 1)..Len(s) : s[j] = ";"}
        e == IF semis = {} THEN Len(s) + 1 ELSE Min(semis)
    IN  IF /\ k <= Len(s) /\ s[k] = "type"
           /\ a > k + 1 /\ b > a
           /\ c <= Len(s) /\ s[c] = "="
           /\ e > c + 1
        THEN IF e <= Len(s) THEN e ELSE Len(s)
        ELSE 0

DeclEndFrom(kw, s, k) ==
    IF kw = "type" THEN AliasEndFrom(s, k) ELSE BlockEndFrom(kw, s, k)

\* one match of (?:export\s+)?<declaration> starting at index i: its last
\* index, or 0
DeclMatchEnd(kw, s, i) ==
    LET k == SkipWS(s, i + 1)
    IN  IF s[i] = "export" /\ k > i + 1 /\ DeclEndFrom(kw, s, k) # 0
        THEN DeclEndFrom(kw, s, k)
        ELSE DeclEndFrom(kw, s, i)

\* pattern.finditer(input_content): the matched texts, left to right,
\* without overlap
RECURSIVE FindDecls(_, _, _)
FindDecls(kw, s, i) ==
    LET starts == {j \in i..Len(s) : DeclMatchEnd(kw, s, j) # 0}
    IN  IF starts = {} THEN <<>>
        ELSE <<SubSeq(s, Min(starts), DeclMatchEnd(kw, s, Min(starts)))>>
                 \o FindDecls(kw, s, DeclMatchEnd(kw, s, Min(starts)) + 1)

-----------------------------------------------------------------------------
(* parse_interface (lines 94-121) *)

\* re.search(kw + r'\s+(\w+)', s): group 1 of the first match, or <<>>
NameSearch(kw, s) ==
    LET starts == {k \in 1..Len(s) :
                      /\ s[k] = kw /\ SkipWS(s, k + 1) > k + 1
                      /\ SkipWord(s, SkipWS(s, k + 1)) > SkipWS(s, k + 1)}
        a == SkipWS(s, Min(starts) + 1)
    IN  IF starts = {} THEN <<>> ELSE SubSeq(s, a, SkipWord(s, a) - 1)

\* re.search(r'\{(.+?)\}', s, re.DOTALL): group 1, or <<>> when nothing
\* matches (the group holds at least one character)
BodySearch(s) ==
    LET starts == {p \in 1..Len(s) :
                      s[p] = "{" /\ \E q \in (p + 2)..Len(s) : s[q] = "}"}
        p0 == Min(starts)
    IN  IF starts = {} THEN <<>>
        ELSE SubSeq(s, p0 + 1, Min({q \in (p0 + 2)..Len(s) : s[q] = "}"}) - 1)

\* $ under re.MULTILINE after a greedy \s* started at p: the indices k the
\* \s* can stop at, the end of the text or just before a newline
LineEnds(s, p) == {k \in p..SkipWS(s, p) : k = Len(s) + 1 \/ s[k] = "\n"}

\* ;?\s*$ at p
FieldTailOK(s, p) ==
    \/ p <= Len(s) /\ s[p] = ";" /\ LineEnds(s, p + 1) # {}
    \/ LineEnds(s, p) # {}

\* the last index ;?\s*$ consumes from p
FieldTailEnd(s, p) ==
    IF p <= Len(s) /\ s[p] = ";" /\ LineEnds(s, p + 1) # {}
    THEN Max(LineEnds(s, p + 1)) - 1
    ELSE Max(LineEnds(s, p)) - 1

\* (.+?);?\s*$ : the ends of the type group started at ts
FieldTypeEnds(s, ts) ==
    {te \in ts..Len(s) : NoNewline(s, ts, te) /\ FieldTailOK(s, te + 1)}

\* (\w+)(\??)\s*:\s*(.+?);?\s*$ with the name at index w: the field and the
\* last index of the match, or <<>>
FieldFrom(s, w, description) ==
    LET w2 == SkipWord(s, w)
        q == IF w2 <= Len(s) /\ s[w2] = "?" THEN w2 + 1 ELSE w2
        colon == SkipWS(s, q)
        starts == {ts \in (colon + 1)..SkipWS(s, colon + 1) : FieldTypeEnds(s, ts) # {}}
        ts == Max(starts)
        te == Min(FieldTypeEnds(s, ts))
    IN  IF w2 > w /\ colon <= Len(s) /\ s[colon] = ":" /\ starts # {}
        THEN <<[name |-> SubSeq(s, w, w2 - 1),
                type |-> Strip(SubSeq(s, ts, te)),
                optional |-> (q > w2),
                description |-> description],
               FieldTailEnd(s, te + 1)>>
        ELSE <<>>

\* /\*\*\s*(.+?)\s*\*/\s* with "/**" at index p: the <<start, end>> pairs of
\* the description group, the one the pattern tries first in front
DescriptionSpans(s, p) ==
    {<<ds, de>> \in ((p + 1)..SkipWS(s, p + 1)) \X ((p + 1)..Len(s)) :
        /\ ds <= de /\ NoNewline(s, ds, de)
        /\ LET x == SkipWS(s, de + 1) IN x <= Len(s) /\ s[x] = "*/"}

\* the spans after which the rest of the field pattern matches
GoodSpans(s, p) ==
    {sp \in DescriptionSpans(s, p) :
        FieldFrom(s, SkipWS(s, SkipWS(s, sp[2] + 1) + 1), <<>>) # <<>>}

\* one match of field_pattern (lines 105-109) starting at index i: the field
\* and the last index of the match, or <<>>
FieldMatch(s, i) ==
    LET p == SkipWS(s, i)
        good == GoodSpans(s, p)
        ds == Max({sp[1] : sp \in good})
        de == Min({sp[2] : sp \in {x \in good : x[1] = ds}})
    IN  IF ~(i = 1 \/ s[i - 1] = "\n") THEN <<>>
        ELSE IF p <= Len(s) /\ s[p] = "/**" /\ good # {}
        THEN FieldFrom(s, SkipWS(s, SkipWS(s, de + 1) + 1), SubSeq(s, ds, de))
        ELSE FieldFrom(s, p, <<>>)

\* field_pattern.finditer(body): the fields, in order
RECURSIVE FindFields(_, _)
FindFields(s, i) ==
    LET starts == {j \in i..Len(s) : FieldMatch(s, j) # <<>>}
    IN  IF starts = {} THEN <<>>
        ELSE <<FieldMatch(s, Min(starts))[1]>>
                 \o FindFields(s, FieldMatch(s, Min(starts))[2] + 1)

\* parse_interface: [ok, name, fields]; ok = FALSE is the ValueError
parse_interface(interface_str) ==
    LET nm == NameSearch("interface", interface_str)
    IN  IF nm = <<>> THEN [ok |-> FALSE, name |-> <<>>, fields |-> <<>>]
        ELSE [ok |-> TRUE,
              name |-> nm,
              fields |-> FindFields(BodySearch(interface_str), 1)]

-----------------------------------------------------------------------------
(* parse_type_alias (lines 123-131) *)

\* ;?\s*$ at p, without re.MULTILINE: up to the end of the text
AliasTailOK(s, p) ==
    \/ p <= Len(s) /\ s[p] = ";" /\ SkipWS(s, p + 1) = Len(s) + 1
    \/ SkipWS(s, p) = Len(s) + 1

\* (.+?);?\s*$ under re.DOTALL: the ends of the group started at ts
AliasDefEnds(s, ts) == {te \in ts..Len(s) : AliasTailOK(s, te + 1)}

\* type\s+(\w+)\s*=\s*(.+?);?\s*$ with the keyword at index k: <<name, group 2>>
\* or <<>>
AliasFrom(s, k) ==
    LET a == SkipWS(s, k + 1)
        b == SkipWord(s, a)
        c == SkipWS(s, b)
        starts == {ts \in (c + 1)..SkipWS(s, c + 1) : AliasDefEnds(s, ts) # {}}
        ts == Max(starts)
    IN  IF /\ s[k] = "type" /\ a > k + 1 /\ b > a
           /\ c <= Len(s) /\ s[c] = "=" /\ starts # {}
        THEN <<SubSeq(s, a, b - 1), SubSeq(s, ts, Min(AliasDefEnds(s, ts)))>>
        ELSE <<>>

\* re.search of that pattern: the first match
AliasSearch(s) ==
    LET starts == {k \in 1..Len(s) : AliasFrom(s, k) # <<>>}
    IN  IF starts = {} THEN <<>> ELSE AliasFrom(s, Min(starts))

\* str.rstrip(';')
RECURSIVE RStripSemi(_)
RStripSemi(s) ==
    IF s # <<>> /\ s[Len(s)] = ";" THEN RStripSemi(SubSeq(s, 1, Len(s) - 1)) ELSE s

\* parse_type_alias: [ok, name, type_def]; ok = FALSE is the ValueError
parse_type_alias(type_str) ==
    LET m == AliasSearch(type_str)
    IN  IF m = <<>> THEN [ok |-> FALSE, name |-> <<>>, type_def |-> <<>>]
        ELSE [ok |-> TRUE, name |-> m[1], type_def |-> RStripSemi(Strip(m[2]))]

-----------------------------------------------------------------------------
(* parse_enum (lines 133-151) *)

Quotes == {"\"", "'"}

\* ["\'](.+?)["\'] with the opening quote at index q: the ends of group 2
EnumLiteralEnds(s, q) ==
    {le \in (q + 1)..(Len(s) - 1) : NoNewline(s, q + 1, le) /\ s[le + 1] \in Quotes}

\* one match of value_pattern (line 146) starting at the word at index i:
\* <<value, last index of the match>>
EnumValueMatch(s, i) ==
    LET w2 == SkipWord(s, i)
        p == SkipWS(s, w2)
        q == SkipWS(s, p + 1)
        assigned == /\ p <= Len(s) /\ s[p] = "="
                    /\ q <= Len(s) /\ s[q] \in Quotes
                    /\ EnumLiteralEnds(s, q) # {}
        le == Min(EnumLiteralEnds(s, q))
    IN  IF assigned
        THEN <<SubSeq(s, q + 1, le), SkipWS(s, le + 2) - 1>>
        ELSE <<SubSeq(s, i, w2 - 1), p - 1>>

\* value_pattern.finditer(body): the values, in order
RECURSIVE FindEnumValues(_, _)
FindEnumValues(s, i) ==
    LET starts == {j \in i..Len(s) : IsWord(s[j])}
        m == EnumValueMatch(s, Min(starts))
    IN  IF starts = {} THEN <<>>
        ELSE <<m[1]>> \o FindEnumValues(s, m[2] + 1)

\* parse_enum: [ok, name, values]; ok = FALSE is the ValueError
parse_enum(enum_str) ==
    LET nm == NameSearch("enum", enum_str)
    IN  IF nm = <<>> THEN [ok |-> FALSE, name |-> <<>>, values |-> <<>>]
        ELSE [ok |-> TRUE,
              name |-> nm,
              values |-> FindEnumValues(BodySearch(enum_str), 1)]

-----------------------------------------------------------------------------
(* Declaration converters (lines 153-201).  A result is the list of the    *)
(* lines the source joins with '\n'.                                       *)

NL == <<"\n">>

\* f'export type {name} = z.infer<typeof {name}Schema>;'
TypeBinding(name) ==
    <<"export type ">> \o name \o <<" = z.infer<typeof ">> \o name \o <<"Schema", ">;">>

\* line 162 / line 164
FieldLine(reg, f) ==
    LET zod_type == convert_type(reg, f.type, f.optional)
    IN  IF f.description # <<>>
        THEN <<"  ">> \o f.name \o <<": ">> \o zod_type
                 \o <<".describe(\"">> \o f.description \o <<"\"),">>
        ELSE <<"  ">> \o f.name \o <<": ">> \o zod_type \o <<",">>

interface_to_zod(reg, name, fields) ==
    Join(NL,
         <<<<"export const ">> \o name \o <<"Schema", " = z.object({">>>>
           \o [i \in DOMAIN fields |-> FieldLine(reg, fields[i])]
           \o <<<<"});">>, <<>>, TypeBinding(name)>>)

type_alias_to_zod(reg, name, type_def) ==
    Join(NL,
         <<<<"export const ">> \o name \o <<"Schema", " = ">>
               \o convert_type(reg, type_def, FALSE) \o <<";">>,
           <<>>,
           TypeBinding(name)>>)

\* line 188: [f'"{v}"' for v in values]
Quoted(values) == [i \in DOMAIN values |-> <<"\"">> \o values[i] \o <<"\"">>]

enum_to_zod(name, values) ==
    LET zod_def ==
            IF Len(values) = 1
            THEN <<"z.literal(">> \o Quoted(values)[1] \o <<")">>
            ELSE <<"z.enum([">> \o Join(<<", ">>, Quoted(values)) \o <<"])">>
    IN  Join(NL,
             <<<<"export const ">> \o name \o <<"Schema", " = ">> \o zod_def \o <<";">>,
               <<>>,
               TypeBinding(name)>>)

-----------------------------------------------------------------------------
(* convert_file (lines 203-268), one loop at a time *)

\* lines 205-210
HeaderLines ==
    <<<<"import { z } from 'zod';">>, <<>>, <<"// Auto-generated Zod schemas">>, <<>>>>

\* lines 217-223
RECURSIVE RegisterInterfaces(_, _)
RegisterInterfaces(d, ms) ==
    IF ms = <<>> THEN d
    ELSE LET r == parse_interface(Head(ms))
         IN  RegisterInterfaces(IF r.ok THEN DictSet(d, r.name, Head(ms)) ELSE d,
                                Tail(ms))

\* lines 230-236
RECURSIVE RegisterTypes(_, _)
RegisterTypes(d, ms) ==
    IF ms = <<>> THEN d
    ELSE LET r == parse_type_alias(Head(ms))
         IN  RegisterTypes(IF r.ok THEN DictSet(d, r.name, r.type_def) ELSE d,
                           Tail(ms))

\* lines 243-249
RECURSIVE RegisterEnums(_, _)
RegisterEnums(d, ms) ==
    IF ms = <<>> THEN d
    ELSE LET r == parse_enum(Head(ms))
         IN  RegisterEnums(IF r.ok THEN DictSet(d, r.name, r.values) ELSE d,
                           Tail(ms))

\* lines 253-255: two output lines per enum
RECURSIVE EmitEnumLines(_)
EmitEnumLines(d) ==
    IF d = <<>> THEN <<>>
    ELSE <<enum_to_zod(d[1][1], d[1][2]), <<>>>> \o EmitEnumLines(Tail(d))

\* lines 258-260
RECURSIVE EmitTypeLines(_, _)
EmitTypeLines(reg, d) ==
    IF d = <<>> THEN <<>>
    ELSE <<type_alias_to_zod(reg, d[1][1], d[1][2]), <<>>>>
             \o EmitTypeLines(reg, Tail(d))

\* lines 263-266
RECURSIVE EmitInterfaceLines(_, _)
EmitInterfaceLines(reg, d) ==
    IF d = <<>> THEN <<>>
    ELSE <<interface_to_zod(reg, d[1][1], parse_interface(d[1][2]).fields), <<>>>>
             \o EmitInterfaceLines(reg, Tail(d))

\* line 268 after the loops of lines 217-266 on registries reg: what one
\* uninterrupted convert_file call leaves and returns
ExtractAll(reg, text) ==
    [interfaces |-> RegisterInterfaces(reg.interfaces, FindDecls("interface", text, 1)),
     types |-> RegisterTypes(reg.types, FindDecls("type", text, 1)),
     enums |-> RegisterEnums(reg.enums, FindDecls("enum", text, 1))]

EmitAll(reg) ==
    Join(NL, HeaderLines \o EmitEnumLines(reg.enums) \o EmitTypeLines(reg, reg.types)
                 \o EmitInterfaceLines(reg, reg.interfaces))

convert_file(reg, text) == EmitAll(ExtractAll(reg, text))

-----------------------------------------------------------------------------
(* Type expressions given to convert_type *)

PrimitiveKeywords ==
    {"string", "number", "boolean", "Date", "any", "unknown", "null",
     "undefined", "void"}

\* a quoted literal, two declared names and an undeclared one
LiteralA == <<"'", "a", "'">>

BaseTypes ==
    {<<k>> : k \in PrimitiveKeywords}
        \cup {LiteralA, <<"User">>, <<"Role">>, <<"Foo">>}

Bar == <<" ", "|", " ">>

ArraySuffix(T) == T \o <<"[", "]">>
GenericArray(T) == <<"Array", "<">> \o T \o <<">">>
RecordOf(K, V) == <<"Record", "<">> \o K \o <<",", " ">> \o V \o <<">">>
UnionOf(A, B) == A \o Bar \o B

\* key type texts of Record<K, V>: a keyword, a union, a union with an
\* undefined branch, and a generic with a comma inside
RecordKeys ==
    {<<"string">>,
     <<"string">> \o Bar \o <<"number">>,
     <<"string">> \o Bar \o <<"undefined">>,
     <<"Exclude", "<", "Keys", ",", " ", "'", "a", "'", ">">>}

Wrap(S) ==
    S \cup {ArraySuffix(T) : T \in S}
      \cup {GenericArray(T) : T \in S}
      \cup {RecordOf(<<"string">>, T) : T \in S}
      \cup {T \o <<"?">> : T \in S}

RECURSIVE Nested(_)
Nested(d) == IF d = 0 THEN BaseTypes ELSE Wrap(Nested(d - 1))

\* branches of the enumerated unions
UnionOperands ==
    {<<"string">>, <<"number">>, <<"User">>, LiteralA,
     ArraySuffix(<<"number">>), GenericArray(<<"string">>),
     RecordOf(<<"string">>, <<"number">>)}

Unions ==
    {UnionOf(A, B) : A, B \in UnionOperands}
      \cup {UnionOf(A, <<"undefined">>) : A \in UnionOperands}
      \cup {UnionOf(A, <<"null">>) : A \in UnionOperands}
      \cup {UnionOf(<<"undefined">>, A) : A \in UnionOperands}
      \cup {UnionOf(UnionOf(A, B), <<"undefined">>) : A, B \in UnionOperands}

\* value types of the enumerated Record<K, V>
RecordValues == Nested(MaxDepth - 1) \cup {UnionOf(A, <<"undefined">>) : A \in UnionOperands}

\* names that begin with a sentinel word: nullable, undefinedValue
SentinelPrefixed == {<<"null", "able">>, <<"undefined", "Value">>}

\* a generic form no rule of convert_type knows: Map<string, number>
UnsupportedGeneric == <<"Map", "<", "string", ",", " ", "number", ">">>

Parenthesised(T) == <<"(">> \o T \o <<")">>

\* unions with a "|" inside an inner <...>: A | Array<B | C>
InnerBarUnions ==
    {UnionOf(A, GenericArray(UnionOf(<<"number">>, <<"User">>))) :
        A \in {<<"string">>, <<"Role">>}}

\* arrays of a union of two declared names: (User | Role)[] and Array<User | Role>
ArraysOfUnion ==
    {ArraySuffix(Parenthesised(UnionOf(<<"User">>, <<"Role">>))),
     GenericArray(UnionOf(<<"User">>, <<"Role">>))}

\* pairs <<written without, written with>> the whitespace that carries no
\* meaning: around "|", inside <...>, before [], at the comma of Record and
\* at either end
WhitespaceVariants ==
    {<< <<"string", "|", "number">>, UnionOf(<<"string">>, <<"number">>) >>,
     << <<"User", "|", "Role">>, UnionOf(<<"User">>, <<"Role">>) >>,
     << <<"string", "|", "undefined">>, UnionOf(<<"string">>, <<"undefined">>) >>,
     << GenericArray(<<"string">>), <<"Array", "<", " ", "string", " ", ">">> >>,
     << ArraySuffix(<<"string">>), <<"string", " ", "[", "]">> >>,
     << <<"Record", "<", "string", ",", "number", ">">>,
        <<"Record", "<", "string", " ", ",", " ", "number", ">">> >>,
     << <<"Record", "<", "string", ",", "number", ">">>, RecordOf(<<"string">>, <<"number">>) >>,
     << <<"number">>, <<" ", "number", " ">> >>}

\* one quoted literal each, with " | ", " | null", "[]", ">" or a generic
\* between its quotes
QuotedLiterals ==
    {LiteralA,
     <<"'", "a", " ", "|", " ", "b", "'">>,
     <<"'", "a", " ", "|", " ", "null", "'">>,
     <<"'", "x", "[", "]", "'">>,
     <<"'", ">", "'">>,
     <<"'", "Array", "<", "x", ">", "'">>}

TypeExprs ==
    Nested(MaxDepth)
      \cup Unions
      \cup {ArraySuffix(U) : U \in Unions}
      \cup {GenericArray(U) : U \in Unions}
      \cup {RecordOf(K, V) : K \in RecordKeys, V \in RecordValues}
      \cup SentinelPrefixed
      \cup {UnionOf(A, S) : A \in {<<"string">>, <<"User">>}, S \in SentinelPrefixed}
      \cup {UnsupportedGeneric, ArraySuffix(UnsupportedGeneric),
            UnsupportedGeneric \o <<"?">>, UnionOf(UnsupportedGeneric, <<"null">>)}
      \cup {U \o <<"?">> : U \in {UnionOf(<<"string">>, <<"undefined">>),
                                  UnionOf(<<"string">>, <<"number">>)}}
      \cup InnerBarUnions
      \cup ArraysOfUnion
      \cup {v[i] : v \in WhitespaceVariants, i \in 1..2}
      \cup QuotedLiterals

-----------------------------------------------------------------------------
(* Input files.  A file is the list of its declarations; a declaration is  *)
(* a record of what it declares together with the text that declares it.   *)

Sp == <<" ">>
Indent == <<" ", " ">>

\* `  name: T;' and `  name?: T;'
FieldText(f) ==
    (IF f.description # <<>>
     THEN Indent \o <<"/**", " ">> \o f.description \o <<" ", "*/", "\n">> ELSE <<>>)
    \o Indent \o f.name \o (IF f.optional THEN <<"?">> ELSE <<>>) \o <<":", " ">> \o f.type

Fld(n, T) == [name |-> <<n>>, type |-> T, optional |-> FALSE, description |-> <<>>]
OptFld(n, T) == [name |-> <<n>>, type |-> T, optional |-> TRUE, description |-> <<>>]
DocFld(n, T, d) == [name |-> <<n>>, type |-> T, optional |-> FALSE, description |-> d]

\* a shape written one field per line
Shape(n, fields) ==
    [kind |-> "interface", name |-> <<n>>, fields |-> fields,
     text |-> <<"interface", " ", n, " ", "{", "\n">>
              \o Join(<<>>, [i \in DOMAIN fields |-> FieldText(fields[i]) \o <<";", "\n">>])
              \o <<"}">>]

\* a shape written on one line: interface N { a: A; b: B }
ShapeOneLine(n, fields) ==
    [kind |-> "interface", name |-> <<n>>, fields |-> fields,
     text |-> <<"export", " ", "interface", " ", n, " ", "{", " ">>
              \o Join(<<";", " ">>,
                      [i \in DOMAIN fields |->
                          fields[i].name \o <<":", " ">> \o fields[i].type])
              \o <<";", " ", "}">>]

\* members: <<identifier>> or <<identifier, literal text>>
MemberText(m) ==
    IF Len(m) = 1 THEN <<m[1]>>
    ELSE <<m[1], " ", "=", " ", "\"">> \o m[2] \o <<"\"">>

Enum(n, members) ==
    [kind |-> "enum", name |-> <<n>>, members |-> members,
     text |-> <<"enum", " ", n, " ", "{", "\n">>
              \o Join(<<>>, [i \in DOMAIN members |->
                                Indent \o MemberText(members[i]) \o <<",", "\n">>])
              \o <<"}">>]

EnumOneLine(n, members) ==
    [kind |-> "enum", name |-> <<n>>, members |-> members,
     text |-> <<"enum", " ", n, " ", "{", " ">>
              \o Join(<<",", " ">>, [i \in DOMAIN members |-> MemberText(members[i])])
              \o <<" ", "}">>]

Alias(n, T) ==
    [kind |-> "type", name |-> <<n>>, def |-> T,
     text |-> <<"export", " ", "type", " ", n, " ", "=", " ">> \o T \o <<";">>]

\* an alias whose statement ends at the end of its line, without a semicolon
AliasNoSemicolon(n, T) ==
    [kind |-> "type", name |-> <<n>>, def |-> T,
     text |-> <<"type", " ", n, " ", "=", " ">> \o T]

\* input_content of a file: its declarations, one after the other
FileText(f) == Join(<<"\n", "\n">>, [i \in DOMAIN f |-> f[i].text]) \o <<"\n">>

DeclColor == Enum("Color", <<<<"RED">>, <<"GREEN", <<"green_value">>>>>>)
DeclRole == EnumOneLine("Role", <<<<"ADMIN">>, <<"USER", <<"user">>>>, <<"GUEST">>>>)
DeclMode == EnumOneLine("Mode", <<<<"ONLY">>>>)
DeclMsg == Enum("Msg", <<<<"OK">>, <<"NO", <<"don", "'", "t">>>>>>)
DeclId == Alias("Id", <<"string">>)
DeclIds == Alias("Ids", ArraySuffix(<<"Id">>))
DeclOwner == Alias("Owner", UnionOf(<<"User">>, <<"undefined">>))
DeclCount == AliasNoSemicolon("Count", <<"number">>)
DeclUser ==
    Shape("User", <<Fld("id", <<"Id">>), Fld("name", <<"string">>),
                    OptFld("role", <<"Role">>)>>)
DeclPost ==
    Shape("Post", <<DocFld("author", <<"User">>, <<"the", " ", "author">>),
                    Fld("tags", ArraySuffix(<<"string">>))>>)
DeclTeam == Shape("Team", <<Fld("owner", <<"User">>), Fld("size", <<"number">>)>>)
DeclPair == ShapeOneLine("Pair", <<Fld("left", <<"User">>), Fld("right", <<"User">>)>>)

\* optionality written as the field modifier, and as an undefined member of
\* the type in last, first and middle position
DeclOpt ==
    Shape("Opt", <<OptFld("a", <<"string">>),
                   Fld("b", UnionOf(<<"string">>, <<"undefined">>)),
                   Fld("c", UnionOf(<<"undefined">>, <<"string">>)),
                   Fld("d", UnionOf(UnionOf(<<"string">>, <<"undefined">>), <<"number">>))>>)
\* shapes with a field of an unsupported generic type
DeclCache == Shape("Cache", <<Fld("entries", UnsupportedGeneric), Fld("size", <<"number">>)>>)
DeclBox == ShapeOneLine("Box", <<Fld("items", UnsupportedGeneric), Fld("count", <<"number">>)>>)

\* an alias of an object type: the right-hand side holds braces and semicolons
DeclPoint ==
    Alias("Point", <<"{", " ", "x", ":", " ", "number", ";", " ",
                     "y", ":", " ", "number", " ", "}">>)
\* the name Mode declared a second time, as another kind
DeclModeAlias == Alias("Mode", <<"string">>)

\* text that declares nothing: a statement, and a declaration commented out
OtherCode == [kind |-> "other", name |-> <<>>,
              text |-> <<"const", " ", "limit", " ", "=", " ", "10", ";">>]
CommentedOut(d) == [kind |-> "comment", name |-> d.name, text |-> <<"/", "/", " ">> \o d.text]
DeclOld == ShapeOneLine("Old", <<Fld("id", <<"string">>)>>)

\* declarations that cannot be parsed: a shape without its identifier, and a
\* shape whose closing brace is missing
ShapeNoName ==
    [kind |-> "malformed", name |-> <<>>,
     text |-> <<"interface", " ", "{", " ", "id", ":", " ", "string", ";", " ", "}">>]
ShapeUnclosed(n, fields) ==
    [kind |-> "malformed", name |-> <<n>>,
     text |-> <<"interface", " ", n, " ", "{", "\n">>
              \o Join(<<>>, [i \in DOMAIN fields |-> FieldText(fields[i]) \o <<";", "\n">>])]
DeclDraft == ShapeUnclosed("Draft", <<Fld("title", <<"string">>)>>)

Files ==
    {<<>>,
     <<DeclOpt>>,
     <<DeclCache, DeclId>>,
     <<DeclBox>>,
     <<DeclColor>>,
     <<DeclMode, DeclRole>>,
     <<DeclMsg>>,
     <<DeclId, DeclRole, DeclUser>>,
     <<DeclRole, DeclId, DeclUser, DeclPost>>,
     <<DeclTeam, DeclId, DeclRole, DeclUser>>,
     <<DeclId, DeclIds>>,
     <<DeclOwner, DeclId, DeclRole, DeclUser>>,
     <<DeclCount, DeclId>>,
     <<DeclId, DeclRole, DeclUser, DeclPair>>,
     <<DeclMode, DeclModeAlias>>,
     <<DeclPoint, OtherCode, CommentedOut(DeclOld)>>,
     <<DeclId, ShapeNoName, DeclMode, DeclDraft, DeclTeam>>}


-----------------------------------------------------------------------------
(* main (lines 271-320): command-line arguments and the files on disk *)

\* an argument the command line leaves out is None; one it gives is a str
None == [given |-> FALSE, value |-> <<>>]
Arg(v) == [given |-> TRUE, value |-> v]

\* an argument test that takes every given value, the empty one too
IsNotNone(a) == a.given

\* lines 291, 297, 312: `if args.input:' is the truth value of the
\* argument, so None and the empty string both count as not given
Truthy(a) == a.given /\ a.value # <<>>

InputPath == <<"types/entities.ts">>
MissingPath == <<"types/missing.ts">>
OutputPath == <<"schemas/entities.ts">>

\* the files on disk before main runs: path -> text
Disk == [path \in {InputPath} |-> FileText(<<DeclId, DeclRole, DeclUser>>)]

\* line 293: input_path.exists()
Exists(disk, path) == path \in DOMAIN disk

\* line 315: output_path.write_text(output_content)
WriteText(disk, path, text) ==
    [q \in DOMAIN disk \cup {path} |-> IF q = path THEN text ELSE disk[q]]

\* the command lines main is run with
InputArgs == {None, Arg(<<>>), Arg(MissingPath), Arg(InputPath)}
InputStringArgs ==
    {None, Arg(<<>>), Arg(FileText(<<DeclColor>>)), Arg(FileText(<<DeclBox>>))}
OutputArgs == {None, Arg(<<>>), Arg(OutputPath)}

CommandLines ==
    [input : InputArgs, input_string : InputStringArgs, output : OutputArgs]

\* main has not been run
NotStarted ==
    [pc |-> "idle", args |-> [input |-> None, input_string |-> None, output |-> None],
     input_content |-> <<>>, output_content |-> <<>>, raised |-> FALSE,
     stdout |-> <<>>, status |-> <<>>, disk |-> Disk]

-----------------------------------------------------------------------------
(* The state machine *)

\* the callers: each runs convert_file on the converter object it holds
Procs == {1, 2}

\* the caller that keeps one converter object and calls it again
LibraryCaller == CHOOSE p \in Procs : \A q \in Procs : p <= q

\* a class-level registry, shared by every converter object
SharedRegistries(p) == LibraryCaller

\* lines 32-35: the registries are attributes of the object __init__ builds,
\* so the converter of caller p has registries of its own
RegistriesOf(p) == p

NoCall == [expr |-> <<>>, optional |-> FALSE, result |-> <<>>]

Init ==
    /\ self = [c \in Procs |-> NewConverter]
    /\ pc = [p \in Procs |-> "idle"]
    /\ input = [p \in Procs |-> <<>>]
    /\ output_lines = [p \in Procs |-> <<>>]
    /\ returned = [p \in Procs |-> <<>>]
    /\ ncalls = [p \in Procs |-> 0]
    /\ overlapped = [p \in Procs |-> FALSE]
    /\ tcall = NoCall
    /\ cli = NotStarted

Running(p) == pc[p] \notin {"idle", "done"}

\* p takes a step of its call: whether another call is running is recorded
Step(p, next) ==
    /\ pc' = [pc EXCEPT ![p] = next]
    /\ overlapped' = [overlapped EXCEPT
                         ![p] = @ \/ \E q \in Procs \ {p} : Running(q)]

\* lines 203-210: convert_file(input_content) starts
Begin(p, f) ==
    /\ pc' = [pc EXCEPT ![p] = "interfaces"]
    /\ overlapped' = [overlapped EXCEPT ![p] = FALSE]
    /\ input' = [input EXCEPT ![p] = f]
    /\ output_lines' = [output_lines EXCEPT ![p] = HeaderLines]
    /\ ncalls' = [ncalls EXCEPT ![p] = @ + 1]
    /\ UNCHANGED <<self, returned, tcall, cli>>

\* a caller that holds a converter object calls convert_file on it, again
\* once the call before has returned
Call(p, f) ==
    /\ p = LibraryCaller
    /\ pc[p] \in {"idle", "done"}
    /\ ncalls[p] < MaxCalls
    /\ Begin(p, f)

\* lines 303-306: main builds a converter and calls convert_file once
Main(p, f) ==
    /\ pc[p] = "idle"
    /\ Begin(p, f)

\* lines 212-223
ParseInterfaces(p) ==
    /\ pc[p] = "interfaces"
    /\ self' = [self EXCEPT ![RegistriesOf(p)].interfaces =
                   RegisterInterfaces(@, FindDecls("interface", FileText(input[p]), 1))]
    /\ Step(p, "types")
    /\ UNCHANGED <<input, output_lines, returned, ncalls, tcall, cli>>

\* lines 225-236
ParseTypes(p) ==
    /\ pc[p] = "types"
    /\ self' = [self EXCEPT ![RegistriesOf(p)].types =
                   RegisterTypes(@, FindDecls("type", FileText(input[p]), 1))]
    /\ Step(p, "enums")
    /\ UNCHANGED <<input, output_lines, returned, ncalls, tcall, cli>>

\* lines 238-249
ParseEnums(p) ==
    /\ pc[p] = "enums"
    /\ self' = [self EXCEPT ![RegistriesOf(p)].enums =
                   RegisterEnums(@, FindDecls("enum", FileText(input[p]), 1))]
    /\ Step(p, "emit_enums")
    /\ UNCHANGED <<input, output_lines, returned, ncalls, tcall, cli>>

\* lines 253-255
EmitEnums(p) ==
    /\ pc[p] = "emit_enums"
    /\ output_lines' = [output_lines EXCEPT
                           ![p] = @ \o EmitEnumLines(self[RegistriesOf(p)].enums)]
    /\ Step(p, "emit_types")
    /\ UNCHANGED <<self, input, returned, ncalls, tcall, cli>>

\* lines 258-260
EmitTypes(p) ==
    /\ pc[p] = "emit_types"
    /\ output_lines' = [output_lines EXCEPT
                           ![p] = @ \o EmitTypeLines(self[RegistriesOf(p)],
                                                     self[RegistriesOf(p)].types)]
    /\ Step(p, "emit_interfaces")
    /\ UNCHANGED <<self, input, returned, ncalls, tcall, cli>>

\* an emission loop that keeps what it parsed: it stores under each name
\* the output lines of the shape in place of the text of the declaration
EmitInterfacesStoring(p) ==
    /\ pc[p] = "emit_interfaces"
    /\ output_lines' = [output_lines EXCEPT
                           ![p] = @ \o EmitInterfaceLines(self[RegistriesOf(p)],
                                                          self[RegistriesOf(p)].interfaces)]
    /\ self' = [self EXCEPT ![RegistriesOf(p)].interfaces =
                   [i \in DOMAIN @ |-> <<@[i][1], interface_to_zod(self[RegistriesOf(p)], @[i][1],
                                                       parse_interface(@[i][2]).fields)>>]]
    /\ Step(p, "return")
    /\ UNCHANGED <<input, returned, ncalls, tcall, cli>>

\* lines 263-266
EmitInterfaces(p) ==
    /\ pc[p] = "emit_interfaces"
    /\ output_lines' = [output_lines EXCEPT
                           ![p] = @ \o EmitInterfaceLines(self[RegistriesOf(p)],
                                                          self[RegistriesOf(p)].interfaces)]
    /\ Step(p, "return")
    /\ UNCHANGED <<self, input, returned, ncalls, tcall, cli>>

\* line 268
Return(p) ==
    /\ pc[p] = "return"
    /\ returned' = [returned EXCEPT
                       ![p] = Append(@, [input |-> input[p],
                                         text |-> Join(NL, output_lines[p]),
                                         registries |-> self[RegistriesOf(p)]])]
    /\ output_lines' = [output_lines EXCEPT ![p] = <<>>]
    /\ Step(p, "done")
    /\ UNCHANGED <<self, input, ncalls, tcall, cli>>

\* the text p's last finished call returned
Result(p) == returned[p][Len(returned[p])].text

\* a converter object used as a library: convert_file is called on it
\* MaxCalls times, each call after the one before has returned
Next ==
    \/ \E p \in Procs, f \in Files : Call(p, f)
    \/ \E p \in Procs : ParseInterfaces(p)
    \/ \E p \in Procs : ParseTypes(p)
    \/ \E p \in Procs : ParseEnums(p)
    \/ \E p \in Procs : EmitEnums(p)
    \/ \E p \in Procs : EmitTypes(p)
    \/ \E p \in Procs : EmitInterfaces(p)
    \/ \E p \in Procs : Return(p)

Spec == Init /\ [][Next]_vars

\* the command line (lines 303-309): every invocation of main has a converter
\* of its own; the invocations run side by side
NextMain ==
    \/ \E p \in Procs, f \in Files : Main(p, f)
    \/ \E p \in Procs : ParseInterfaces(p)
    \/ \E p \in Procs : ParseTypes(p)
    \/ \E p \in Procs : ParseEnums(p)
    \/ \E p \in Procs : EmitEnums(p)
    \/ \E p \in Procs : EmitTypes(p)
    \/ \E p \in Procs : EmitInterfaces(p)
    \/ \E p \in Procs : Return(p)

SpecMain == Init /\ [][NextMain]_vars

\* convert_type called on a converter: one that is new, or one that has
\* converted a file declaring Id, Role and User
TypeRegistries ==
    {NewConverter, ExtractAll(NewConverter, FileText(<<DeclId, DeclRole, DeclUser>>))}

InitType ==
    /\ \E r \in TypeRegistries : self = [c \in Procs |-> r]
    /\ pc = [p \in Procs |-> "idle"]
    /\ input = [p \in Procs |-> <<>>]
    /\ output_lines = [p \in Procs |-> <<>>]
    /\ returned = [p \in Procs |-> <<>>]
    /\ ncalls = [p \in Procs |-> 0]
    /\ overlapped = [p \in Procs |-> FALSE]
    /\ tcall = NoCall
    /\ cli = NotStarted

\* lines 37-92: convert_type(ts_type, optional) on the library caller's converter.
\* The call reads the registries and writes nothing, so a behaviour holds one
\* call: a second call would start from the same state.
ConvertType(e, o) ==
    /\ tcall = NoCall
    /\ tcall' = [expr |-> e, optional |-> o,
                 result |-> convert_type(self[LibraryCaller], e, o)]
    /\ UNCHANGED <<self, pc, input, output_lines, returned, ncalls, overlapped, cli>>

NextType == \E e \in TypeExprs, o \in BOOLEAN : ConvertType(e, o)

SpecType == InitType /\ [][NextType]_vars

-----------------------------------------------------------------------------
(* main, one step at a time *)

CliUnchanged == UNCHANGED <<self, pc, input, output_lines, returned, ncalls, overlapped, tcall>>

\* line 288: args = parser.parse_args()
CliMain(a) ==
    /\ cli.pc = "idle"
    /\ cli' = [cli EXCEPT !.pc = "read", !.args = a]
    /\ CliUnchanged

\* return n after print(msg)
Exit(c, msg, n) ==
    [c EXCEPT !.pc = "exit", !.stdout = Append(@, msg), !.status = <<n>>]

\* lines 291-301: read the input
CliReadInput ==
    /\ cli.pc = "read"
    /\ cli' =
          IF Truthy(cli.args.input)
          THEN IF ~Exists(cli.disk, cli.args.input.value)
               THEN Exit(cli, <<"Error: Input file not found: ">> \o cli.args.input.value, 1)
               ELSE [cli EXCEPT !.pc = "convert",
                                !.input_content = cli.disk[cli.args.input.value]]
          ELSE IF Truthy(cli.args.input_string)
               THEN [cli EXCEPT !.pc = "convert",
                                !.input_content = cli.args.input_string.value]
               ELSE Exit(cli, <<"Error: Either --input or --input-string must be provided">>, 1)
    /\ CliUnchanged

\* lines 304-306: a new converter converts the input
CliConvert ==
    /\ cli.pc = "convert"
    /\ cli' = [cli EXCEPT !.pc = "write",
                          !.output_content = convert_file(NewConverter, cli.input_content)]
    /\ CliUnchanged

\* lines 307-309: convert_file raised an Exception
CliConvertRaises ==
    /\ cli.pc = "convert"
    /\ cli' = [Exit(cli, <<"Error during conversion: ">>, 1) EXCEPT !.raised = TRUE]
    /\ CliUnchanged

\* lines 312-320: write the output
CliWriteOutput ==
    /\ cli.pc = "write"
    /\ cli' =
          IF Truthy(cli.args.output)
          THEN [Exit(cli, <<"Generated Zod schemas written to: ">> \o cli.args.output.value, 0)
                   EXCEPT !.disk = WriteText(cli.disk, cli.args.output.value,
                                             cli.output_content)]
          ELSE Exit(cli, cli.output_content, 0)
    /\ CliUnchanged

NextCli ==
    \/ \E a \in CommandLines : CliMain(a)
    \/ CliReadInput
    \/ CliConvert
    \/ CliConvertRaises
    \/ CliWriteOutput

SpecCli == Init /\ [][NextCli]_vars

-----------------------------------------------------------------------------
(* Properties of convert_type, checked under SpecType *)

Called == tcall # NoCall

Optional(z) == z \o <<".optional()">>
ArrayOf(z) == <<"z.array(">> \o z \o <<")">>
UnionOfTwo(a, b) == <<"z.union([">> \o a \o <<", ">> \o b \o <<"])">>

\* the validator convert_type gives T on the converter of the call
Conv(T) == convert_type(self[LibraryCaller], T, FALSE)

\* the fixed primitive validator of each keyword
PrimitiveValidator(k) ==
    CASE k = "string" -> "z.string()"
      [] k = "number" -> "z.number()"
      [] k = "boolean" -> "z.boolean()"
      [] k = "Date" -> "z.date()"
      [] k = "any" -> "z.any()"
      [] k = "unknown" -> "z.unknown()"
      [] k = "null" -> "z.null()"
      [] k = "undefined" -> "z.undefined()"
      [] k = "void" -> "z.void()"

\* C1: for every primitive keyword, convert_type(keyword) is the fixed
\* primitive validator of the table, and it carries the optional wrapper
\* exactly when the caller passed optional=True.
C1_PrimitiveKeywords ==
    \A k \in PrimitiveKeywords :
        (Called /\ tcall.expr = <<k>>) =>
            tcall.result = IF tcall.optional
                           THEN <<PrimitiveValidator(k), ".optional()">>
                           ELSE <<PrimitiveValidator(k)>>

\* a keyword converted without, and one converted with, optional=True
C1_Witness ==
    /\ Called
    /\ \/ tcall.expr = <<"Date">> /\ ~tcall.optional /\ tcall.result = <<"z.date()">>
       \/ tcall.expr = <<"null">> /\ tcall.optional
            /\ tcall.result = <<"z.null()", ".optional()">>

\* the type expressions T for which T[] and Array<T> are enumerated
ArrayElements == Nested(MaxDepth - 1) \cup Unions

\* C2: for any supported T, convert_type("T[]") and convert_type("Array<T>")
\* are the same string, and it is z.array(convert_type(T)).
C2_ArrayFormsAgree ==
    \A T \in ArrayElements :
        (Called /\ ~tcall.optional /\ tcall.expr \in {ArraySuffix(T), GenericArray(T)}) =>
            /\ tcall.result = Conv(ArraySuffix(T))
            /\ tcall.result = Conv(GenericArray(T))
            /\ tcall.result = ArrayOf(Conv(T))

\* C3: for supported A and B, convert_type("A | B | undefined") is the
\* optional wrapper around the union of convert_type(A) and convert_type(B),
\* and convert_type("A | undefined") is the optional wrapper around
\* convert_type(A), with no one-branch union.
C3_OptionalUnion ==
    \A A \in UnionOperands :
        /\ (Called /\ ~tcall.optional /\ tcall.expr = UnionOf(A, <<"undefined">>)) =>
               tcall.result = Optional(Conv(A))
        /\ \A B \in UnionOperands :
               (Called /\ ~tcall.optional
                  /\ tcall.expr = UnionOf(UnionOf(A, B), <<"undefined">>)) =>
                   tcall.result = Optional(UnionOfTwo(Conv(A), Conv(B)))

\* C4: for a fixed V, Record<K1, V> and Record<K2, V> convert to the same
\* output, whatever the key type texts K1 and K2 are.
C4_RecordKeyIgnored ==
    \A K1, K2 \in RecordKeys : \A V \in RecordValues :
        (Called /\ tcall.expr = RecordOf(K1, V)) =>
            tcall.result =
                convert_type(self[LibraryCaller], RecordOf(K2, V), tcall.optional)

-----------------------------------------------------------------------------
(* Reading a returned text *)

Done(p) == pc[p] = "done"

\* the registries hold what the extraction loops of p's call wrote
Extracted(p) == pc[p] \in {"emit_enums", "emit_types", "emit_interfaces", "return", "done"}

\* the elements of a set of numbers, ascending
RECURSIVE Ascending(_)
Ascending(S) == IF S = {} THEN <<>> ELSE <<Min(S)>> \o Ascending(S \ {Min(S)})

\* where the text defines a schema constant, and where it binds a type
DefIndices(t) == {i \in 1..Len(t) : t[i] = "export const "}
BindIndices(t) == {i \in 1..Len(t) : t[i] = "export type "}

\* the name that follows index i, up to the atom `stop'
NameUpTo(t, i, stop) ==
    SubSeq(t, i + 1, Min({j \in (i + 1)..Len(t) : t[j] = stop}) - 1)

DefName(t, i) == NameUpTo(t, i, "Schema")
BindName(t, i) == NameUpTo(t, i, " = z.infer<typeof ")

DefinedNames(t) ==
    [k \in DOMAIN Ascending(DefIndices(t)) |-> DefName(t, Ascending(DefIndices(t))[k])]
BoundNames(t) ==
    [k \in DOMAIN Ascending(BindIndices(t)) |-> BindName(t, Ascending(BindIndices(t))[k])]

\* the schema definition of name n in the text: from its `export const' to
\* the type binding that follows it
SchemaBlock(t, n) ==
    LET defs == {i \in DefIndices(t) : DefName(t, i) = n}
        i0 == Min(defs)
        ends == {j \in BindIndices(t) : j > i0}
    IN  IF defs = {} \/ ends = {} THEN <<>> ELSE SubSeq(t, i0, Min(ends) - 1)

\* the names a file declares, by kind, in the order of the text
RECURSIVE NamesOfKind(_, _)
NamesOfKind(f, kind) ==
    IF f = <<>> THEN <<>>
    ELSE (IF Head(f).kind = kind THEN <<Head(f).name>> ELSE <<>>)
             \o NamesOfKind(Tail(f), kind)

DeclaredNames(f) ==
    {f[i].name : i \in {j \in DOMAIN f : f[j].kind \in {"interface", "type", "enum"}}}

\* d[k] of a registry
Lookup(d, k) == d[CHOOSE i \in DOMAIN d : d[i][1] = k][2]

-----------------------------------------------------------------------------
(* Properties of convert_file, checked under Spec and SpecMain *)

\* the value of each member: its literal when given, else its identifier
MemberValues(members) ==
    [i \in DOMAIN members |->
        IF Len(members[i]) = 1 THEN <<members[i][1]>> ELSE members[i][2]]

\* the enumeration that lists the values vs in order
EnumerationOf(n, vs) ==
    <<"export const ">> \o n \o <<"Schema", " = ">>
        \o (IF Len(vs) = 1
            THEN <<"z.literal(", "\"">> \o vs[1] \o <<"\"", ")">>
            ELSE <<"z.enum([">>
                 \o Join(<<", ">>, [i \in DOMAIN vs |-> <<"\"">> \o vs[i] \o <<"\"">>])
                 \o <<"])">>)
        \o <<";">>

\* C5: for an enum whose members are bare identifiers or identifier =
\* "literal", the extracted list has one value per member, in declaration
\* order (the literal when given, else the identifier), and the emitted
\* enumeration lists those values in that order.
C5_EnumValuesInOrder ==
    \A p \in Procs : \A i \in DOMAIN input[p] :
        LET d == input[p][i] IN
        d.kind = "enum" =>
            /\ Extracted(p) =>
                   /\ d.name \in Keys(self[RegistriesOf(p)].enums)
                   /\ Lookup(self[RegistriesOf(p)].enums, d.name) = MemberValues(d.members)
            /\ Done(p) =>
                   Contains(Result(p), EnumerationOf(d.name, MemberValues(d.members)))

\* the entry of field f whose validator is the reference to schema f.type
ReferenceEntry(f) ==
    <<"\n", "  ">> \o f.name \o <<": ">> \o f.type \o <<"Schema">>
        \o (IF f.optional THEN <<".optional()">> ELSE <<>>)
        \o (IF f.description # <<>>
            THEN <<".describe(\"">> \o f.description \o <<"\"),">>
            ELSE <<",">>)

\* C6: in convert_file, a field whose type is exactly the name of another
\* declaration of the file is emitted as the reference <Name>Schema, whether
\* that declaration comes before or after the shape.
C6_FieldReferences ==
    \A p \in Procs : \A i \in DOMAIN input[p] :
        LET d == input[p][i] IN
        (Done(p) /\ d.kind = "interface") =>
            \A k \in DOMAIN d.fields :
                (d.fields[k].type \in DeclaredNames(input[p]) \ {d.name}) =>
                    Contains(SchemaBlock(Result(p), d.name), ReferenceEntry(d.fields[k]))

\* the indices where the text uses a schema identifier: <name>Schema that is
\* neither being defined nor named by a type binding
UseIndices(t) ==
    {j \in 2..(Len(t) - 1) :
        t[j + 1] = "Schema" /\ t[j - 1] \notin {"export const ", " = z.infer<typeof "}}

\* C7: in the returned text every <Name>Schema a declaration's schema refers
\* to is defined earlier than the declaration that uses it.
C7_DefinedBeforeUse ==
    \A p \in Procs :
        Done(p) =>
            LET t == Result(p) IN
            \A j \in UseIndices(t) :
                \E i \in DefIndices(t) :
                    /\ DefName(t, i) = <<t[j]>>
                    /\ i < Max({k \in DefIndices(t) : k < j})

HeaderText ==
    <<"import { z } from 'zod';", "\n", "\n", "// Auto-generated Zod schemas", "\n">>

\* C8: the returned text is the import header once at the top, then one
\* schema + type-binding pair per declared name, enums first, then aliases,
\* then shapes, each group in declaration order; two runs on the same input
\* text return the same text.
C8_OutputLayout ==
    \A p \in Procs :
        /\ (Done(p) /\ ncalls[p] = 1) =>
               LET t == Result(p)
                   f == input[p]
                   names == NamesOfKind(f, "enum") \o NamesOfKind(f, "type")
                                \o NamesOfKind(f, "interface")
               IN  /\ StartsWith(t, HeaderText)
                   /\ Cardinality({i \in 1..Len(t) : t[i] = HeaderText[1]}) = 1
                   /\ DefinedNames(t) = names
                   /\ BoundNames(t) = names
                   /\ \A k \in DOMAIN names :
                          Ascending(DefIndices(t))[k] < Ascending(BindIndices(t))[k]
                   /\ \A k \in 2..Len(names) :
                          Ascending(BindIndices(t))[k - 1] < Ascending(DefIndices(t))[k]
        /\ \A a, b \in DOMAIN returned[p] :
               returned[p][a].input = returned[p][b].input =>
                   returned[p][a].text = returned[p][b].text

\* C9: the text a call returns holds schemas only for the declarations of
\* that call's input, and it is the text a new converter returns for it.
C9_CallScoped ==
    \A p \in Procs :
        Done(p) =>
            /\ \A i \in DefIndices(Result(p)) :
                   DefName(Result(p), i) \in DeclaredNames(input[p])
            /\ Result(p) = convert_file(NewConverter, FileText(input[p]))

\* what an invocation of main returns for file f when it runs alone
AloneResult(f) == EmitAll(ExtractAll(NewConverter, FileText(f)))

-----------------------------------------------------------------------------
(* Properties of the emitted shapes, checked under Spec *)

\* the registries p's call reads
Registries(p) == self[RegistriesOf(p)]

\* where the field entries of an object schema start: a line that begins
\* with the two-space indent of lines 162 and 164
EntryStarts(b) == {i \in 1..(Len(b) - 1) : b[i] = "\n" /\ b[i + 1] = "  "}

\* the entry of field f: its own name, and the validator of its own type
\* expression and optional flag
FieldEntry(reg, f) ==
    <<"\n", "  ">> \o f.name \o <<": ">> \o convert_type(reg, f.type, f.optional)
        \o (IF f.description # <<>> THEN <<".describe(\"">> ELSE <<",">>)

\* C11: the object schema emitted for a shape with n fields, written one per
\* line or several on one line, has exactly n field entries, in declared
\* order, each with the field's own name and the validator convert_type
\* gives for the field's own type and optional flag.
C11_FieldEntries ==
    \A p \in Procs : \A i \in DOMAIN input[p] :
        LET d == input[p][i] IN
        (Done(p) /\ d.kind = "interface") =>
            LET b == SchemaBlock(Result(p), d.name)
                starts == Ascending(EntryStarts(b))
            IN  /\ Len(starts) = Len(d.fields)
                /\ \A k \in DOMAIN d.fields :
                       StartsWith(SubSeq(b, starts[k], Len(b)),
                                  FieldEntry(Registries(p), d.fields[k]))

\* the members of a union type text, and the text without its undefined members
Members(T) == [i \in DOMAIN SplitBar(T, 1) |-> Strip(SplitBar(T, 1)[i])]
IsPresent(m) == m # <<"undefined">>
WithoutUndefined(T) == Join(Bar, SelectSeq(Members(T), IsPresent))
HasUndefinedMember(T) ==
    Len(Members(T)) > 1 /\ \E i \in DOMAIN Members(T) : ~IsPresent(Members(T)[i])

\* C12: a field made optional by the modifier (f?: T) and a field made
\* optional by an undefined member of its union type (first, middle or last)
\* are emitted with the same validator, the optional wrapper around
\* convert_type(T).
C12_OptionalNormalised ==
    \A p \in Procs : \A i \in DOMAIN input[p] :
        LET d == input[p][i] IN
        (Done(p) /\ d.kind = "interface") =>
            \A k \in DOMAIN d.fields :
                LET f == d.fields[k]
                    T == WithoutUndefined(f.type)
                IN  (f.optional \/ HasUndefinedMember(f.type)) =>
                        Contains(SchemaBlock(Result(p), d.name),
                                 <<"\n", "  ">> \o f.name \o <<": ">>
                                     \o Optional(convert_type(Registries(p), T, FALSE))
                                     \o (IF f.description # <<>>
                                         THEN <<".describe(\"">> ELSE <<",">>))

\* the accept-anything validator marked with the expression T
Marked(T) == <<"z.any() /* TODO: define schema for ">> \o T \o <<" */">>

\* the entry of a field whose type no rule resolves
MarkedEntry(f) ==
    <<"\n", "  ">> \o f.name \o <<": ">> \o Marked(f.type)
        \o (IF f.optional THEN <<".optional()">> ELSE <<>>) \o <<",">>

HasPair(t, n) ==
    /\ \E k \in DOMAIN DefinedNames(t) : DefinedNames(t)[k] = n
    /\ \E k \in DOMAIN BoundNames(t) : BoundNames(t)[k] = n

\* C13: when a shape has a field of an unresolvable type, convert_file
\* returns the header, a schema + type-binding pair for every declaration of
\* the input, every other field of the shape converted as usual, and the
\* unresolvable field as the marked accept-anything validator.
C13_UnresolvableField ==
    \A p \in Procs : \A i \in DOMAIN input[p] :
        LET d == input[p][i] IN
        (/\ Done(p)
         /\ d.kind = "interface"
         /\ \E k \in DOMAIN d.fields : d.fields[k].type = UnsupportedGeneric) =>
            /\ StartsWith(Result(p), HeaderText)
            /\ \A j \in DOMAIN input[p] : HasPair(Result(p), input[p][j].name)
            /\ \A k \in DOMAIN d.fields :
                   Contains(SchemaBlock(Result(p), d.name),
                            IF d.fields[k].type = UnsupportedGeneric
                            THEN MarkedEntry(d.fields[k])
                            ELSE FieldEntry(Registries(p), d.fields[k]))

-----------------------------------------------------------------------------
(* Further properties of convert_type, checked under SpecType *)

\* the registries of the converter convert_type was called on
CallRegistries == self[LibraryCaller]

DeclaredIn(reg) == Keys(reg.interfaces) \cup Keys(reg.types) \cup Keys(reg.enums)

\* the text t is matched by none of the rules: primitive, array, generic
\* array, keyed map, union, quoted literal, registry reference
NoRule(reg, t) ==
    /\ ~(Len(t) = 1 /\ t[1] \in PrimitiveKeywords)
    /\ ~EndsWith(t, <<"[", "]">>)
    /\ ~(StartsWith(t, <<"Array", "<">>) /\ EndsWith(t, <<">">>))
    /\ ~StartsWith(t, <<"Record", "<">>)
    /\ ~Contains(t, Bar)
    /\ ~(t # <<>> /\ t[1] \in {"'", "\""})
    /\ t \notin DeclaredIn(reg)

\* C14: every convert_type call returns a validator, and an expression that,
\* its optionality markers removed, matches none of the rules gives the
\* accept-anything validator with a comment naming that expression (under
\* the optional wrapper when the call is optional).
C14_FallbackMarked ==
    Called =>
        /\ tcall.result # <<>>
        /\ LET t == StripOptionality(tcall.expr) IN
           NoRule(CallRegistries, t) =>
               tcall.result = IF IsOptional(tcall.expr, tcall.optional)
                              THEN Optional(Marked(t)) ELSE Marked(t)

\* an unsupported generic converted on a converter that has declarations
C14_Witness ==
    /\ Called
    /\ DeclaredIn(CallRegistries) # {}
    /\ tcall.expr = UnsupportedGeneric
    /\ tcall.result = Marked(UnsupportedGeneric)

\* the result of the call, the wrapper of an optional call taken off
Unwrapped ==
    IF tcall.optional THEN SubSeq(tcall.result, 1, Len(tcall.result) - 1)
    ELSE tcall.result

\* C16: optionality stripping removes only a trailing `?' and the union
\* branches that are exactly undefined or null: a branch whose name begins
\* with a sentinel word (nullable, undefinedValue) stays a branch of the
\* union, converted from its own full text, and does not make the result
\* optional.
C16_SentinelBranchesOnly ==
    \A A \in {<<"string">>, <<"User">>} :
        /\ \A S \in SentinelPrefixed :
               (Called /\ tcall.expr = UnionOf(A, S)) =>
                   /\ Unwrapped = UnionOfTwo(Conv(A), Marked(S))
                   /\ (tcall.optional <=>
                          tcall.result[Len(tcall.result)] = ".optional()")
        /\ \A S \in {<<"undefined">>, <<"null">>} :
               (Called /\ tcall.expr = UnionOf(A, S)) =>
                   tcall.result = Optional(Conv(A))

\* the expression without its trailing `?'
Unmarked(e) ==
    IF EndsWith(Strip(e), <<"?">>) THEN Strip(SubSeq(Strip(e), 1, Len(Strip(e)) - 1))
    ELSE Strip(e)

\* an optionality signal fired: the optional argument, a trailing `?', or a
\* union branch that is undefined or null
SignalFired(e, o) ==
    \/ o
    \/ EndsWith(Strip(e), <<"?">>)
    \/ /\ Len(Members(Unmarked(e))) > 1
       /\ \E i \in DOMAIN Members(Unmarked(e)) :
              Members(Unmarked(e))[i] \in {<<"undefined">>, <<"null">>}

\* how many optional combinators end the validator
RECURSIVE Wrappers(_)
Wrappers(z) ==
    IF z # <<>> /\ z[Len(z)] = ".optional()"
    THEN 1 + Wrappers(SubSeq(z, 1, Len(z) - 1)) ELSE 0

\* C17: the validator one convert_type call returns is wrapped with the
\* optional combinator exactly once when at least one optionality signal
\* fired, and not at all when none fired.
C17_OptionalOnce ==
    Called =>
        Wrappers(tcall.result) = IF SignalFired(tcall.expr, tcall.optional) THEN 1 ELSE 0

\* pairs of top-level branches, with a "|" or a generic inside a branch
TopLevelBranches ==
    {<<A, GenericArray(UnionOf(<<"number">>, <<"User">>))>> : A \in {<<"string">>, <<"Role">>}}
      \cup {<<GenericArray(<<"string">>), B>> :
               B \in {GenericArray(<<"string">>), RecordOf(<<"string">>, <<"number">>)}}
      \cup {<<<<"string">>, <<"number">>>>, <<<<"User">>, LiteralA>>}

\* C18: a union is split at its top-level "|" only: for A | Array<B | C>
\* and Array<A> | Array<B> each top-level branch is converted from its whole
\* text, and the results are wrapped in one union combinator.
C18_TopLevelSplit ==
    \A b \in TopLevelBranches :
        (Called /\ ~tcall.optional /\ tcall.expr = UnionOf(b[1], b[2])) =>
            tcall.result = UnionOfTwo(Conv(b[1]), Conv(b[2]))

\* the reference to the schema of a declared name
SchemaOf(n) == n \o <<"Schema">>

\* C19: for declared names A and B, an array of their union, written
\* (A | B)[] or Array<A | B>, converts to the array combinator around the
\* union of ASchema and BSchema.
C19_ArrayOfUnionOfReferences ==
    \A e \in ArraysOfUnion :
        (/\ Called /\ ~tcall.optional /\ tcall.expr = e
         /\ {<<"User">>, <<"Role">>} \subseteq DeclaredIn(CallRegistries)) =>
            tcall.result = ArrayOf(UnionOfTwo(SchemaOf(<<"User">>), SchemaOf(<<"Role">>)))

RecordValidator(z) == <<"z.record(">> \o z \o <<")">>

\* C20: for a keyed map Record<K, V> with any supported value type V, a
\* generic or a union with undefined included, convert_type returns the map
\* validator around convert_type(V).
C20_RecordValue ==
    \A V \in RecordValues :
        (Called /\ ~tcall.optional /\ tcall.expr = RecordOf(<<"string">>, V)) =>
            tcall.result = RecordValidator(Conv(V))

-----------------------------------------------------------------------------
(* Properties of main, checked under SpecCli *)

Exited == cli.pc = "exit"

IsDiagnostic(msg) == msg # <<>> /\ msg[1] \in {"Error: Input file not found: ",
                                               "Error: Either --input or --input-string must be provided",
                                               "Error during conversion: "}

\* main returned non-zero, printed a diagnostic and wrote no file
FailedCleanly ==
    /\ cli.status # <<0>>
    /\ \E k \in DOMAIN cli.stdout : IsDiagnostic(cli.stdout[k])
    /\ cli.disk = Disk

\* main returned 0 with the generated text at the destination, or on
\* standard output when no destination is given
Delivered(destination) ==
    /\ cli.status = <<0>>
    /\ cli.output_content = convert_file(NewConverter, cli.input_content)
    /\ IF destination
       THEN /\ cli.args.output.value \in DOMAIN cli.disk
            /\ cli.disk[cli.args.output.value] = cli.output_content
       ELSE /\ cli.disk = Disk
            /\ \E k \in DOMAIN cli.stdout : cli.stdout[k] = cli.output_content

\* the argument is given and is not the empty string
NonEmpty(a) == a # None /\ a # Arg(<<>>)

\* the input path names no file
InputMissing == NonEmpty(cli.args.input) /\ cli.args.input.value \notin DOMAIN Disk

\* C15: main returns non-zero and prints a diagnostic, writing no output
\* file, when the input path does not exist or convert_file raises;
\* otherwise it writes the generated text to the destination when one is
\* given, to standard output when none is, and returns 0.
C15_ExitStatus ==
    Exited =>
        IF InputMissing \/ cli.raised
        THEN FailedCleanly
        ELSE Delivered(cli.args.output # None)

\* no input at all: neither a non-empty input path nor a non-empty inline text
NoInput == ~NonEmpty(cli.args.input) /\ ~NonEmpty(cli.args.input_string)

\* C15 as the code has it: main also returns non-zero with a diagnostic,
\* writing no file, when neither an input path nor an inline text is given
\* (an empty value counts as not given); an empty destination counts as none.
C15_ExitStatusAmended ==
    Exited =>
        IF InputMissing \/ NoInput \/ cli.raised
        THEN FailedCleanly
        ELSE /\ Delivered(NonEmpty(cli.args.output))
             /\ cli.input_content = IF NonEmpty(cli.args.input)
                                    THEN Disk[cli.args.input.value]
                                    ELSE cli.args.input_string.value

\* main has written the text generated from an inline text to the destination
C15_Witness ==
    /\ Exited
    /\ ~cli.args.input.given
    /\ cli.args.input_string.value = FileText(<<DeclColor>>)
    /\ cli.status = <<0>>
    /\ cli.disk # Disk

\* C21: two type expressions that differ only in insignificant whitespace
\* (around "|", inside <...>, before [], at the comma of Record, at either
\* end) convert to the identical validator: A|B as A | B, string|undefined
\* as string | undefined.
C21_WhitespaceInsensitive ==
    \A v \in WhitespaceVariants :
        (Called /\ tcall.expr = v[1]) =>
            tcall.result = convert_type(CallRegistries, v[2], tcall.optional)

\* the literal-value validator holding the quoted text l
LiteralOf(l) == <<"z.literal(">> \o l \o <<")">>

\* C22: a type expression that is one quoted string literal converts to the
\* literal-value validator holding exactly that text, whatever stands
\* between the quotes (" | ", " | null", "[]", ">").
C22_QuotedLiteralWhole ==
    \A l \in QuotedLiterals :
        (Called /\ ~tcall.optional /\ tcall.expr = l) => tcall.result = LiteralOf(l)

-----------------------------------------------------------------------------
(* Properties of the extraction phase of convert_file, checked under Spec *)

IsDeclaration(d) == d.kind \in {"interface", "type", "enum"}

\* the names a file declares as one kind
NamesDeclaredAs(f, kind) == {f[i].name : i \in {j \in DOMAIN f : f[j].kind = kind}}

\* C23: every alias of the input is registered under its own name with its
\* own complete right-hand side, which ends at its terminator (its semicolon
\* or the end of its statement): it takes in no declaration that follows, and
\* a brace or angle bracket inside it does not end it.
C23_AliasRightHandSide ==
    \A p \in Procs : \A i \in DOMAIN input[p] :
        LET d == input[p][i] IN
        (Extracted(p) /\ d.kind = "type") =>
            /\ d.name \in Keys(Registries(p).types)
            /\ Lookup(Registries(p).types, d.name) = d.def

\* C24: the extraction phase registers exactly the top-level shape, alias and
\* enumeration declarations of the input text, and nothing for the text
\* around them (comments, other statements).
C24_OnlyDeclarations ==
    \A p \in Procs :
        (/\ Extracted(p)
         /\ ncalls[p] = 1
         /\ \A i \in DOMAIN input[p] : input[p][i].kind # "malformed") =>
            /\ Keys(Registries(p).interfaces) = NamesDeclaredAs(input[p], "interface")
            /\ Keys(Registries(p).types) = NamesDeclaredAs(input[p], "type")
            /\ Keys(Registries(p).enums) = NamesDeclaredAs(input[p], "enum")

\* the declarations of a file that cannot be parsed
Malformed(f) == {i \in DOMAIN f : f[i].kind = "malformed"}

\* the registry of its kind holds declaration d as it is written
Intact(reg, d) ==
    CASE d.kind = "interface" ->
             /\ d.name \in Keys(reg.interfaces)
             /\ Lookup(reg.interfaces, d.name) = d.text
      [] d.kind = "type" ->
             /\ d.name \in Keys(reg.types)
             /\ Lookup(reg.types, d.name) = d.def
      [] d.kind = "enum" ->
             /\ d.name \in Keys(reg.enums)
             /\ Lookup(reg.enums, d.name) = MemberValues(d.members)

\* C25: a declaration that cannot be parsed (no identifier, a body brace
\* missing) is skipped and the call returns: it adds no registry entry, and
\* every well-formed declaration before and after it is extracted intact and
\* emitted.
C25_MalformedSkipped ==
    \A p \in Procs :
        (Done(p) /\ ncalls[p] = 1 /\ Malformed(input[p]) # {}) =>
            /\ DeclaredIn(Registries(p)) = DeclaredNames(input[p])
            /\ \A i \in DOMAIN input[p] :
                   IsDeclaration(input[p][i]) =>
                       /\ Intact(Registries(p), input[p][i])
                       /\ HasPair(Result(p), input[p][i].name)

\* lines 217-249: what the three extraction loops record for the blocks
\* they skip.  Each handler is `except ValueError: pass', and nothing else in
\* the loops logs or prints.
Warnings(text) == <<>>

\* the malformed blocks of p's input that were left out of the registries
SkippedBlocks(p) ==
    {i \in Malformed(input[p]) : input[p][i].name \notin DeclaredIn(Registries(p))}

\* C26: every malformed block that is skipped is accompanied by a logged
\* warning: a call records as many warnings as it skips blocks.
C26_WarningPerSkippedBlock ==
    \A p \in Procs :
        (Done(p) /\ ncalls[p] = 1) =>
            Len(Warnings(FileText(input[p]))) = Cardinality(SkippedBlocks(p))

-----------------------------------------------------------------------------
(* Properties of the registries over the phases of a call, checked under Spec *)

ExtractionPhases == {"interfaces", "types", "enums"}
EmissionPhases == {"emit_enums", "emit_types", "emit_interfaces", "return"}

\* C27: the registries of a converter are written only by the extraction
\* phase of a convert_file call on it, so every write of a call comes before
\* the call's first emission step; the emission steps, with the convert_type,
\* enum_to_zod, type_alias_to_zod and interface_to_zod calls they make, leave
\* the three registries as they are.
C27_RegistriesWrittenInExtraction ==
    [][\A c \in Procs :
           self'[c] # self[c] =>
               \E p \in Procs : /\ RegistriesOf(p) = c
                                /\ pc[p] \in ExtractionPhases
                                /\ pc'[p] # pc[p]]_vars

\* a call has emitted all its schemas from registries that hold a shape, an
\* alias and an enumeration
C27_Witness ==
    \E p \in Procs :
        /\ pc[p] = "return"
        /\ Registries(p).interfaces # <<>>
        /\ Registries(p).types # <<>>
        /\ Registries(p).enums # <<>>
        /\ Len(output_lines[p]) > Len(HeaderLines)

-----------------------------------------------------------------------------
(* Termination of convert_type, checked under SpecType *)

\* len(s) of the str the atoms spell
RECURSIVE CharLen(_)
CharLen(s) == IF s = <<>> THEN 0 ELSE Len(Head(s)) + CharLen(Tail(s))

\* the expressions of the calls n levels below the call on e, and of the
\* calls down to that level
RECURSIVE CallsAt(_, _)
CallsAt(e, n) ==
    IF n = 0 THEN {e}
    ELSE LET inner == InnerCalls(e)
         IN  UNION {CallsAt(inner[k], n - 1) : k \in DOMAIN inner}

RECURSIVE CallsDownTo(_, _)
CallsDownTo(e, n) ==
    IF n = 0 THEN {e}
    ELSE LET inner == InnerCalls(e)
         IN  {e} \cup UNION {CallsDownTo(inner[k], n - 1) : k \in DOMAIN inner}

\* C28: convert_type runs to completion on every input: each recursive call
\* is made on an expression strictly shorter than the one the calling
\* invocation was given, so no call is nested deeper than the expression is
\* long.
C28_RecursionShortens ==
    Called =>
        /\ \A e \in CallsDownTo(tcall.expr, Len(tcall.expr)) :
               LET inner == InnerCalls(e)
               IN  \A k \in DOMAIN inner : CharLen(inner[k]) < CharLen(e)
        /\ CallsAt(tcall.expr, Len(tcall.expr) + 1) = {}

\* a call on a union whose branches recurse again has returned
C28_Witness ==
    /\ Called
    /\ Contains(tcall.expr, Bar)
    /\ Len(InnerCalls(tcall.expr)) > 1
    /\ CallsAt(tcall.expr, 2) # {}
    /\ tcall.result # <<>>

-----------------------------------------------------------------------------
(* Properties of repeated names and repeated calls, checked under Spec *)

\* C29: within the text one convert_file call returns, the schema
\* identifiers that are defined are pairwise distinct, also when the input
\* declares the same name more than once or as more than one kind.
C29_DistinctIdentifiers ==
    \A p \in Procs :
        Done(p) =>
            LET names == DefinedNames(Result(p))
            IN  \A a, b \in DOMAIN names : a # b => names[a] # names[b]

\* the last two calls p has finished
LastCall(p) == returned[p][Len(returned[p])]
CallBefore(p) == returned[p][Len(returned[p]) - 1]

\* C30: convert_file is idempotent on one converter: called again with the
\* same input text, it leaves the three registries (keys, values, key order)
\* as they were after the call before and returns the identical text.
C30_Idempotent ==
    \A p \in Procs :
        (/\ Done(p)
         /\ Len(returned[p]) >= 2
         /\ LastCall(p).input = CallBefore(p).input) =>
            /\ LastCall(p).registries = CallBefore(p).registries
            /\ KeyList(LastCall(p).registries.interfaces)
                   = KeyList(CallBefore(p).registries.interfaces)
            /\ LastCall(p).text = CallBefore(p).text

\* a file with a shape, an alias and an enumeration was converted twice in
\* a row by one converter
C30_Witness ==
    \E p \in Procs :
        /\ Done(p)
        /\ Len(returned[p]) >= 2
        /\ LastCall(p).input = CallBefore(p).input
        /\ LastCall(p).registries.interfaces # <<>>
        /\ LastCall(p).registries.types # <<>>
        /\ LastCall(p).registries.enums # <<>>
        /\ Len(LastCall(p).text) > Len(HeaderText)

=============================================================================
